---- MODULE Spec2Model ----
(***************************************************************************)
(* A model of rpbp/reference_preprocessing/prepare_genome.py: the driver   *)
(* main() that checks programs and config keys, optionally hands the whole *)
(* invocation to the batch queue, and otherwise calls six external tools   *)
(* in a fixed order through utils.call_if_not_exists.                      *)
(*                                                                         *)
(* main() is modelled from the source.  The collaborators it imports       *)
(* (misc.utils, misc.slurm, misc.bio, riboutils.ribo_filenames) are        *)
(* modelled from their documented contracts.                               *)
(***************************************************************************)
EXTENDS Integers, Sequences, FiniteSets

VARIABLES
    run,            \* which run of the driver this is, counted from 1
    prev,           \* the outcome of each stage in the run before this one
    star_executable, \* args.star_executable
    overwrite,      \* args.overwrite
    do_not_call,    \* args.do_not_call
    use_slurm,      \* args.use_slurm
    path,           \* the program names resolvable on the execution path
    config,         \* the keys present in the loaded config mapping
    fs,             \* the files that exist on the filesystem
    fs0,            \* the files that existed when main() started
    pc,             \* position of main()
    proc,           \* the commands of the subprocesses in flight
    status,         \* exit status of the last subprocess, -1 before any exit
    invoked,        \* the commands invoked as subprocesses, in order
    entered,        \* the stages whose call_if_not_exists was entered, in order
    outcome,        \* per stage: "none", "skipped", "planned", "running", "executed", "failed"
    error,          \* the exception that ended the run, or "none"
    reported,       \* the names carried by that exception
    exit_code,      \* -1 while the process runs, then its exit code
    submitted,      \* number of jobs handed to the batch queue
    remote          \* the submitted job: "none", "queued", "finished"

vars == <<run, prev, star_executable, overwrite, do_not_call, use_slurm, path, config, fs, fs0, pc, proc, status,
          invoked, entered, outcome, error, reported, exit_code, submitted, remote>>

----------------------------------------------------------------------------
(* Bounds of the model *)

MaxMissingPrograms == 1
MaxMissingKeys == 1
MaxExitStatus == 1

----------------------------------------------------------------------------
(* Names taken from the source *)

default_star_executable == "STAR"

(* Mutant: the roster names the default STAR, not the one on the command line. *)
programs_DefaultStar ==
    { "extract-orfs", "bowtie2-build-s", "gffread", "intersectBed",
      "split-bed12-blocks", "gtf-to-bed12", default_star_executable }

programs ==
    { "extract-orfs", "bowtie2-build-s", "gffread", "intersectBed",
      "split-bed12-blocks", "gtf-to-bed12", star_executable }

required_keys ==
    { "genome_base_path", "genome_name", "gtf", "fasta",
      "ribosomal_fasta", "ribosomal_index", "star_index" }

Stages ==
    << "RRNA_INDEX", "GENOME_INDEX", "BED12_CONVERT",
       "TRANSCRIPT_FASTA", "ORF_EXTRACT", "EXON_SPLIT" >>

StageSet == { Stages[i] : i \in 1..Len(Stages) }

(* The files the two index builders write, keyed by the index base name. *)
get_bowtie2_index_files(base) == { <<base, "1.bt2">>, <<base, "rev.1.bt2">> }

get_star_index_files(base) == { <<base, "Genome">>, <<base, "SA">> }

(* riboutils.ribo_filenames: one canonical path per artifact. *)
transcript_bed == <<"genome", "bed">>

transcript_fasta == <<"genome", "transcripts.fa">>

orfs_genomic == <<"genome", "orfs.bed">>

exons_file == <<"genome", "exons.bed">>

(* The stage table of main(): command, out_files and in_files of each call. *)
Cmd(stage) ==
    CASE stage = "RRNA_INDEX"       -> "bowtie2-build-s"
      [] stage = "GENOME_INDEX"     -> star_executable
      [] stage = "BED12_CONVERT"    -> "gtf-to-bed12"
      [] stage = "TRANSCRIPT_FASTA" -> "gffread"
      [] stage = "ORF_EXTRACT"      -> "extract-orfs"
      [] stage = "EXON_SPLIT"       -> "split-bed12-blocks"

OutFiles(stage) ==
    CASE stage = "RRNA_INDEX"       -> get_bowtie2_index_files("ribosomal_index")
      [] stage = "GENOME_INDEX"     -> get_star_index_files("star_index")
      [] stage = "BED12_CONVERT"    -> { transcript_bed }
      [] stage = "TRANSCRIPT_FASTA" -> { transcript_fasta }
      [] stage = "ORF_EXTRACT"      -> { orfs_genomic }
      [] stage = "EXON_SPLIT"       -> { exons_file }
      [] OTHER                      -> {}

InFiles(stage) ==
    CASE stage = "RRNA_INDEX"       -> { <<"config", "ribosomal_fasta">> }
      [] stage = "GENOME_INDEX"     -> { <<"config", "fasta">> }
      [] stage = "BED12_CONVERT"    -> { <<"config", "gtf">> }
      [] stage = "TRANSCRIPT_FASTA" -> { <<"config", "gtf">>, <<"config", "fasta">> }
      [] stage = "ORF_EXTRACT"      -> { transcript_fasta }
      [] stage = "EXON_SPLIT"       -> { orfs_genomic }
      [] OTHER                      -> {}

(* The command string main() builds first in the transcript FASTA section; *)
(* the call that would run it is commented out and cmd is then reassigned. *)
extract_bed_sequences_cmd == "extract-bed-sequences"

(* The values cmd takes, in order, in the transcript FASTA section. *)
TranscriptFastaBuilt == << extract_bed_sequences_cmd, Cmd("TRANSCRIPT_FASTA") >>

AllOutFiles == UNION { OutFiles(s) : s \in StageSet }

(* Mutant: the transcript FASTA stage is jumped over. *)
NextStage_Swapped(stage) ==
    CASE stage = "RRNA_INDEX"       -> "GENOME_INDEX"
      [] stage = "GENOME_INDEX"     -> "BED12_CONVERT"
      [] stage = "BED12_CONVERT"    -> "ORF_EXTRACT"
      [] stage = "TRANSCRIPT_FASTA" -> "ORF_EXTRACT"
      [] stage = "ORF_EXTRACT"      -> "EXON_SPLIT"
      [] stage = "EXON_SPLIT"       -> "DONE"

(* The stage main() reaches after the call for `stage` returns. *)
NextStage(stage) ==
    CASE stage = "RRNA_INDEX"       -> "GENOME_INDEX"
      [] stage = "GENOME_INDEX"     -> "BED12_CONVERT"
      [] stage = "BED12_CONVERT"    -> "TRANSCRIPT_FASTA"
      [] stage = "TRANSCRIPT_FASTA" -> "ORF_EXTRACT"
      [] stage = "ORF_EXTRACT"      -> "EXON_SPLIT"
      [] stage = "EXON_SPLIT"       -> "DONE"

(* Mutant: the do-not-call flag is ignored. *)
call_IgnoresFlag == TRUE

(* call = not args.do_not_call *)
call == ~do_not_call

ExitStatuses == 0..MaxExitStatus

BoundedSubsets(S, n) == { m \in SUBSET S : Cardinality(m) <= n }

----------------------------------------------------------------------------
(* The state when main() has parsed its arguments and loaded the config. *)

Init ==
    /\ run = 1
    /\ prev = [s \in StageSet |-> "none"]
    /\ star_executable = default_star_executable
    /\ overwrite \in BOOLEAN
    /\ do_not_call \in BOOLEAN
    /\ use_slurm \in BOOLEAN
    /\ path \in { programs \ m : m \in BoundedSubsets(programs, MaxMissingPrograms) }
    /\ config \in { required_keys \ m : m \in BoundedSubsets(required_keys, MaxMissingKeys) }
    /\ fs \in SUBSET AllOutFiles
    /\ fs0 = fs
    /\ pc = "check_programs"
    /\ proc = {}
    /\ status = -1
    /\ invoked = << >>
    /\ entered = << >>
    /\ outcome = [s \in StageSet |-> "none"]
    /\ error = "none"
    /\ reported = {}
    /\ exit_code = -1
    /\ submitted = 0
    /\ remote = "none"

----------------------------------------------------------------------------
(* Mutant: the exception is caught and logged, the process ends with 0. *)
Raise_ExitsZero(kind, names) ==
    /\ error' = kind
    /\ reported' = names
    /\ pc' = "failed"
    /\ exit_code' = 0

(* An uncaught exception: main() has no handler, the process ends with 1. *)

Raise(kind, names) ==
    /\ error' = kind
    /\ reported' = names
    /\ pc' = "failed"
    /\ exit_code' = 1

(* main() goes on to `next`; falling off its end is exit code 0. *)
Advance(next) ==
    /\ pc' = next
    /\ exit_code' = IF next = "DONE" THEN 0 ELSE exit_code
    /\ UNCHANGED <<error, reported>>

(* utils.check_programs_exist(programs) *)
check_programs_exist(names) == names \ path

(* utils.check_keys_exist(config, required_keys) *)
check_keys_exist(cfg, keys) == keys \ cfg

CheckPrograms ==
    /\ pc = "check_programs"
    /\ LET missing == check_programs_exist(programs)
       IN  IF missing # {}
           THEN Raise("MissingExecutableError", missing)
           ELSE Advance("check_keys")
    /\ UNCHANGED <<run, prev, star_executable, overwrite, do_not_call, use_slurm, path, config, fs, fs0, proc, status,
                   invoked, entered, outcome, submitted, remote>>

(* Mutant: the result of the key check is dropped. *)
CheckKeys_NoRaise ==
    /\ pc = "check_keys"
    /\ Advance("slurm_gate")
    /\ UNCHANGED <<run, prev, star_executable, overwrite, do_not_call, use_slurm, path, config, fs, fs0, proc, status,
                   invoked, entered, outcome, submitted, remote>>

(* Mutant: only one of the absent keys is reported. *)
CheckKeys_ReportsFirst ==
    /\ pc = "check_keys"
    /\ LET missing == check_keys_exist(config, required_keys)
       IN  IF missing # {}
           THEN Raise("MissingConfigKeyError", { CHOOSE k \in missing : TRUE })
           ELSE Advance("slurm_gate")
    /\ UNCHANGED <<run, prev, star_executable, overwrite, do_not_call, use_slurm, path,
                   config, fs, fs0, proc, status, invoked, entered, outcome, submitted,
                   remote>>

CheckKeys ==
    /\ pc = "check_keys"
    /\ LET missing == check_keys_exist(config, required_keys)
       IN  IF missing # {}
           THEN Raise("MissingConfigKeyError", missing)
           ELSE Advance("slurm_gate")
    /\ UNCHANGED <<run, prev, star_executable, overwrite, do_not_call, use_slurm, path, config, fs, fs0, proc, status,
                   invoked, entered, outcome, submitted, remote>>

(* Mutant: the return after the submission is missing. *)
SlurmGate_NoReturn ==
    /\ pc = "slurm_gate"
    /\ pc' = "RRNA_INDEX"
    /\ submitted' = IF use_slurm THEN submitted + 1 ELSE submitted
    /\ UNCHANGED <<run, prev, star_executable, overwrite, do_not_call, use_slurm, path, config, fs, fs0, proc, status,
                   invoked, entered, outcome, error, reported, exit_code, remote>>

(* Lines 66-69: with --use-slurm the whole invocation goes to the batch    *)
(* queue through slurm.check_sbatch and main() returns.                    *)
(* Mutant: with --use-slurm main() stays at the gate and submits nothing. *)
SlurmGate_Stalls ==
    /\ pc = "slurm_gate"
    /\ IF use_slurm
       THEN UNCHANGED <<pc, submitted>>
       ELSE /\ pc' = "RRNA_INDEX"
            /\ UNCHANGED submitted
    /\ UNCHANGED <<run, prev, star_executable, overwrite, do_not_call, use_slurm, path, config, fs, fs0, proc, status,
                   invoked, entered, outcome, error, reported, exit_code, remote>>

SlurmGate ==
    /\ pc = "slurm_gate"
    /\ IF use_slurm
       THEN /\ pc' = "sbatch"
            /\ submitted' = submitted + 1
       ELSE /\ pc' = "RRNA_INDEX"
            /\ UNCHANGED submitted
    /\ UNCHANGED <<run, prev, star_executable, overwrite, do_not_call, use_slurm, path, config, fs, fs0, proc, status,
                   invoked, entered, outcome, error, reported, exit_code, remote>>

(* slurm.check_sbatch returns: the submission was accepted or it failed.   *)
(* main() returns right after an accepted submission.                      *)
SbatchReturn ==
    /\ pc = "sbatch"
    /\ \E accepted \in BOOLEAN :
         IF accepted
         THEN /\ remote' = "queued"
              /\ pc' = "dispatched"
              /\ exit_code' = 0
              /\ UNCHANGED <<error, reported>>
         ELSE /\ Raise("DispatchError", {})
              /\ UNCHANGED remote
    /\ UNCHANGED <<run, prev, star_executable, overwrite, do_not_call, use_slurm, path, config, fs, fs0, proc, status,
                   invoked, entered, outcome, submitted>>

(* The batch queue runs the submitted job on its own schedule. *)
RemoteJobFinish ==
    /\ remote = "queued"
    /\ remote' = "finished"
    /\ UNCHANGED <<run, prev, star_executable, overwrite, do_not_call, use_slurm, path, config, fs, fs0, pc, proc, status,
                   invoked, entered, outcome, error, reported, exit_code, submitted>>

----------------------------------------------------------------------------
(* utils.call_if_not_exists(cmd, out_files, in_files, overwrite, call):    *)
(* the decision taken on entry; the call blocks while a subprocess runs.  *)
(* The command runs unless overwrite is off and every out file exists;     *)
(* with call off it is only logged.  The in files take no part.            *)

(* Mutant: a stage with a missing in file is skipped. *)
ShouldRun_NeedsInputs(out_files, in_files, ow) ==
    in_files \subseteq fs /\ (ow \/ ~(out_files \subseteq fs))

ShouldRun(out_files, in_files, ow) == ow \/ ~(out_files \subseteq fs)

call_if_not_exists(stage, cmd, out_files, in_files, ow, do_call) ==
    /\ pc = stage
    /\ proc = {}
    /\ entered' = Append(entered, stage)
    /\ IF ~ShouldRun(out_files, in_files, ow)
       THEN /\ outcome' = [outcome EXCEPT ![stage] = "skipped"]
            /\ Advance(NextStage(stage))
            /\ UNCHANGED <<proc, invoked>>
       ELSE IF ~do_call
       THEN /\ outcome' = [outcome EXCEPT ![stage] = "planned"]
            /\ Advance(NextStage(stage))
            /\ UNCHANGED <<proc, invoked>>
       ELSE /\ outcome' = [outcome EXCEPT ![stage] = "running"]
            /\ proc' = proc \cup {cmd}
            /\ invoked' = Append(invoked, cmd)
            /\ UNCHANGED <<pc, exit_code, error, reported>>
    /\ UNCHANGED <<run, prev, star_executable, overwrite, do_not_call, use_slurm, path, config, fs, fs0, status,
                   submitted, remote>>

(* Mutant: the out files are checked before the exit status. *)
check_call_returns_OutputsFirst(stage, cmd, out_files, st, written) ==
    /\ pc = stage
    /\ cmd \in proc
    /\ fs' = (fs \ out_files) \cup written
    /\ status' = st
    /\ proc' = proc \ {cmd}
    /\ IF ~(out_files \subseteq fs')
       THEN /\ Raise("MissingOutputError", out_files \ fs')
            /\ outcome' = [outcome EXCEPT ![stage] = "failed"]
       ELSE IF st # 0
       THEN /\ Raise("ExecutionError", {})
            /\ outcome' = [outcome EXCEPT ![stage] = "failed"]
       ELSE /\ Advance(NextStage(stage))
            /\ outcome' = [outcome EXCEPT ![stage] = "executed"]
    /\ UNCHANGED <<run, prev, star_executable, overwrite, do_not_call, use_slurm, path, config, fs0,
                   invoked, entered, submitted, remote>>

(* Mutant: the out files are not checked after the command. *)
check_call_returns_NoOutputCheck(stage, cmd, out_files, st, written) ==
    /\ pc = stage
    /\ cmd \in proc
    /\ fs' = (fs \ out_files) \cup written
    /\ status' = st
    /\ proc' = proc \ {cmd}
    /\ IF st # 0
       THEN /\ Raise("ExecutionError", {})
            /\ outcome' = [outcome EXCEPT ![stage] = "failed"]
       ELSE /\ Advance(NextStage(stage))
            /\ outcome' = [outcome EXCEPT ![stage] = "executed"]
    /\ UNCHANGED <<run, prev, star_executable, overwrite, do_not_call, use_slurm, path, config, fs0,
                   invoked, entered, submitted, remote>>

(* The subprocess exits.  While it ran it wrote, rewrote or removed any of *)
(* the stage's out files.  A non-zero status is an ExecutionError; after a *)
(* zero status every out file must exist, else MissingOutputError.         *)
check_call_returns(stage, cmd, out_files, st, written) ==
    /\ pc = stage
    /\ cmd \in proc
    /\ fs' = (fs \ out_files) \cup written
    /\ status' = st
    /\ proc' = proc \ {cmd}
    /\ IF st # 0
       THEN /\ Raise("ExecutionError", {})
            /\ outcome' = [outcome EXCEPT ![stage] = "failed"]
       ELSE IF ~(out_files \subseteq fs')
       THEN /\ Raise("MissingOutputError", out_files \ fs')
            /\ outcome' = [outcome EXCEPT ![stage] = "failed"]
       ELSE /\ Advance(NextStage(stage))
            /\ outcome' = [outcome EXCEPT ![stage] = "executed"]
    /\ UNCHANGED <<run, prev, star_executable, overwrite, do_not_call, use_slurm, path, config, fs0,
                   invoked, entered, submitted, remote>>

SubprocessExit ==
    \E stage \in StageSet, st \in ExitStatuses :
        \E written \in SUBSET OutFiles(stage) :
            check_call_returns(stage, Cmd(stage), OutFiles(stage), st, written)

----------------------------------------------------------------------------
(* The six calls of main(), lines 74-148. *)

(* Mutant: the STAR index call forces overwrite. *)
StarIndex_AlwaysOverwrite ==
    call_if_not_exists("GENOME_INDEX", Cmd("GENOME_INDEX"), OutFiles("GENOME_INDEX"),
                       InFiles("GENOME_INDEX"), TRUE, call)

(* Mutant: the exon call leaves overwrite at its default. *)
ExonSplit_DropsOverwrite ==
    call_if_not_exists("EXON_SPLIT", Cmd("EXON_SPLIT"), OutFiles("EXON_SPLIT"),
                       InFiles("EXON_SPLIT"), FALSE, call)

(* Mutant: the ORF call forces overwrite. *)
OrfExtract_AlwaysOverwrite ==
    call_if_not_exists("ORF_EXTRACT", Cmd("ORF_EXTRACT"), OutFiles("ORF_EXTRACT"),
                       InFiles("ORF_EXTRACT"), TRUE, call)

(* Mutant: the BED12 call also runs when an earlier stage ran (make-like). *)
Bed12Convert_RerunsAfterUpstream ==
    call_if_not_exists("BED12_CONVERT", Cmd("BED12_CONVERT"), OutFiles("BED12_CONVERT"),
                       InFiles("BED12_CONVERT"), overwrite \/ invoked # << >>, call)

(* Mutant: main() removes the intermediate BED12 file before this stage. *)
TranscriptFasta_RemovesBed ==
    /\ pc = "TRANSCRIPT_FASTA"
    /\ proc = {}
    /\ entered' = Append(entered, "TRANSCRIPT_FASTA")
    /\ fs' = fs \ { transcript_bed }
    /\ IF ~ShouldRun(OutFiles("TRANSCRIPT_FASTA"), InFiles("TRANSCRIPT_FASTA"), overwrite)
       THEN /\ outcome' = [outcome EXCEPT !["TRANSCRIPT_FASTA"] = "skipped"]
            /\ Advance(NextStage("TRANSCRIPT_FASTA"))
            /\ UNCHANGED <<proc, invoked>>
       ELSE IF ~call
       THEN /\ outcome' = [outcome EXCEPT !["TRANSCRIPT_FASTA"] = "planned"]
            /\ Advance(NextStage("TRANSCRIPT_FASTA"))
            /\ UNCHANGED <<proc, invoked>>
       ELSE /\ outcome' = [outcome EXCEPT !["TRANSCRIPT_FASTA"] = "running"]
            /\ proc' = proc \cup { Cmd("TRANSCRIPT_FASTA") }
            /\ invoked' = Append(invoked, Cmd("TRANSCRIPT_FASTA"))
            /\ UNCHANGED <<pc, exit_code, error, reported>>
    /\ UNCHANGED <<run, prev, star_executable, overwrite, do_not_call, use_slurm, path,
                   config, fs0, status, submitted, remote>>

(* Mutant: the rRNA index call forces overwrite. *)
RrnaIndex_AlwaysOverwrite ==
    call_if_not_exists("RRNA_INDEX", Cmd("RRNA_INDEX"), OutFiles("RRNA_INDEX"),
                       InFiles("RRNA_INDEX"), TRUE, call)

(* Mutant: main() opens the BED12 file for writing before the call. *)
Bed12Convert_TouchesOutput ==
    /\ pc = "BED12_CONVERT"
    /\ proc = {}
    /\ entered' = Append(entered, "BED12_CONVERT")
    /\ fs' = fs \cup { transcript_bed }
    /\ IF ~ShouldRun(OutFiles("BED12_CONVERT"), InFiles("BED12_CONVERT"), overwrite)
       THEN /\ outcome' = [outcome EXCEPT !["BED12_CONVERT"] = "skipped"]
            /\ Advance(NextStage("BED12_CONVERT"))
            /\ UNCHANGED <<proc, invoked>>
       ELSE IF ~call
       THEN /\ outcome' = [outcome EXCEPT !["BED12_CONVERT"] = "planned"]
            /\ Advance(NextStage("BED12_CONVERT"))
            /\ UNCHANGED <<proc, invoked>>
       ELSE /\ outcome' = [outcome EXCEPT !["BED12_CONVERT"] = "running"]
            /\ proc' = proc \cup { Cmd("BED12_CONVERT") }
            /\ invoked' = Append(invoked, Cmd("BED12_CONVERT"))
            /\ UNCHANGED <<pc, exit_code, error, reported>>
    /\ UNCHANGED <<run, prev, star_executable, overwrite, do_not_call, use_slurm, path,
                   config, fs0, status, submitted, remote>>

RrnaIndex ==
    call_if_not_exists("RRNA_INDEX", Cmd("RRNA_INDEX"), OutFiles("RRNA_INDEX"),
                       InFiles("RRNA_INDEX"), overwrite, call)

StarIndex ==
    call_if_not_exists("GENOME_INDEX", Cmd("GENOME_INDEX"), OutFiles("GENOME_INDEX"),
                       InFiles("GENOME_INDEX"), overwrite, call)

Bed12Convert ==
    call_if_not_exists("BED12_CONVERT", Cmd("BED12_CONVERT"), OutFiles("BED12_CONVERT"),
                       InFiles("BED12_CONVERT"), overwrite, call)

(* Mutant: the call is made with the first command built, before cmd is *)
(* reassigned.                                                          *)
TranscriptFasta_CallsFirstCmd ==
    call_if_not_exists("TRANSCRIPT_FASTA", TranscriptFastaBuilt[1],
                       OutFiles("TRANSCRIPT_FASTA"), InFiles("TRANSCRIPT_FASTA"),
                       overwrite, call)

TranscriptFasta ==
    call_if_not_exists("TRANSCRIPT_FASTA", Cmd("TRANSCRIPT_FASTA"),
                       OutFiles("TRANSCRIPT_FASTA"), InFiles("TRANSCRIPT_FASTA"),
                       overwrite, call)

OrfExtract ==
    call_if_not_exists("ORF_EXTRACT", Cmd("ORF_EXTRACT"), OutFiles("ORF_EXTRACT"),
                       InFiles("ORF_EXTRACT"), overwrite, call)

(* Mutant: out_files is not reassigned before the exon call and still *)
(* names the ORF file.                                                *)
ExonSplit_StaleOutFiles ==
    call_if_not_exists("EXON_SPLIT", Cmd("EXON_SPLIT"), OutFiles("ORF_EXTRACT"),
                       InFiles("EXON_SPLIT"), overwrite, call)

ExonSplit ==
    call_if_not_exists("EXON_SPLIT", Cmd("EXON_SPLIT"), OutFiles("EXON_SPLIT"),
                       InFiles("EXON_SPLIT"), overwrite, call)

Next ==
    \/ CheckPrograms
    \/ CheckKeys
    \/ SlurmGate
    \/ SbatchReturn
    \/ RemoteJobFinish
    \/ RrnaIndex
    \/ StarIndex
    \/ Bed12Convert
    \/ TranscriptFasta
    \/ OrfExtract
    \/ ExonSplit
    \/ SubprocessExit

Spec == Init /\ [][Next]_vars

----------------------------------------------------------------------------
(* Running the driver again.  After a run that got to the stages has       *)
(* ended, the same command line is run once more on the filesystem the     *)
(* first run left behind.                                                  *)

MaxRuns == 2

(* The steps main() takes itself, in program order; it is one sequential *)
(* process, so it takes its next step whenever it is not blocked.        *)
Main ==
    \/ CheckPrograms
    \/ CheckKeys
    \/ SlurmGate
    \/ RrnaIndex
    \/ StarIndex
    \/ Bed12Convert
    \/ TranscriptFasta
    \/ OrfExtract
    \/ ExonSplit

(* A run in which every invoked subprocess exits and the submission *)
(* command returns.  The batch queue is under no such obligation.   *)
FairSpec ==
    /\ Init
    /\ [][Next]_vars
    /\ WF_vars(Main)
    /\ WF_vars(SubprocessExit)
    /\ WF_vars(SbatchReturn)

Rerun ==
    /\ run < MaxRuns
    /\ exit_code # -1
    /\ entered # << >>
    /\ run' = run + 1
    /\ prev' = outcome
    /\ fs0' = fs
    /\ pc' = "check_programs"
    /\ proc' = {}
    /\ status' = -1
    /\ invoked' = << >>
    /\ entered' = << >>
    /\ outcome' = [s \in StageSet |-> "none"]
    /\ error' = "none"
    /\ reported' = {}
    /\ exit_code' = -1
    /\ submitted' = 0
    /\ remote' = "none"
    /\ UNCHANGED <<star_executable, overwrite, do_not_call, use_slurm, path, config, fs>>

NextRerun ==
    \/ Next
    \/ Rerun

SpecRerun == Init /\ [][NextRerun]_vars

----------------------------------------------------------------------------
(* The startup checks over a wider range of command lines, configs and     *)
(* execution paths: any set of required keys may be absent, the STAR       *)
(* executable may be named on the command line, and up to MaxUnresolved    *)
(* program names do not resolve.  The filesystem is empty or complete.     *)

MaxUnresolved == 2

StarExecutables == { default_star_executable, "STARlong" }

ProgramNames ==
    { "extract-orfs", "bowtie2-build-s", "gffread", "intersectBed",
      "split-bed12-blocks", "gtf-to-bed12" } \cup StarExecutables

InitStartup ==
    /\ run = 1
    /\ prev = [s \in StageSet |-> "none"]
    /\ star_executable \in StarExecutables
    /\ overwrite \in BOOLEAN
    /\ do_not_call \in BOOLEAN
    /\ use_slurm \in BOOLEAN
    /\ path \in { ProgramNames \ m : m \in BoundedSubsets(ProgramNames, MaxUnresolved) }
    /\ config \in SUBSET required_keys
    /\ fs \in { {}, AllOutFiles }
    /\ fs0 = fs
    /\ pc = "check_programs"
    /\ proc = {}
    /\ status = -1
    /\ invoked = << >>
    /\ entered = << >>
    /\ outcome = [s \in StageSet |-> "none"]
    /\ error = "none"
    /\ reported = {}
    /\ exit_code = -1
    /\ submitted = 0
    /\ remote = "none"

SpecStartup == InitStartup /\ [][Next]_vars

----------------------------------------------------------------------------
(* The stages over every filesystem, the files named by the config         *)
(* included: each of them and each declared out file exists or not.  The   *)
(* startup checks pass.                                                    *)

SourceFiles == UNION { InFiles(s) : s \in StageSet } \ AllOutFiles

InitInputs ==
    /\ run = 1
    /\ prev = [s \in StageSet |-> "none"]
    /\ star_executable = default_star_executable
    /\ overwrite \in BOOLEAN
    /\ do_not_call \in BOOLEAN
    /\ use_slurm \in BOOLEAN
    /\ path = programs
    /\ config = required_keys
    /\ fs \in SUBSET (AllOutFiles \cup SourceFiles)
    /\ fs0 = fs
    /\ pc = "check_programs"
    /\ proc = {}
    /\ status = -1
    /\ invoked = << >>
    /\ entered = << >>
    /\ outcome = [s \in StageSet |-> "none"]
    /\ error = "none"
    /\ reported = {}
    /\ exit_code = -1
    /\ submitted = 0
    /\ remote = "none"

SpecInputs == InitInputs /\ [][Next]_vars




----------------------------------------------------------------------------
(* Vocabulary of the properties *)

StartupErrors == { "MissingExecutableError", "MissingConfigKeyError" }

StartupOk == programs \subseteq path /\ required_keys \subseteq config

Returned == { "skipped", "planned", "executed" }

EnteredInOrder == entered = SubSeq(Stages, 1, Len(entered))

----------------------------------------------------------------------------
(* C1: at every stage, when overwrite is off and every declared output of  *)
(* the stage exists as the stage is reached, the stage ends in that step   *)
(* as skipped: nothing is added to the invoked commands and no subprocess  *)
(* is started.                                                             *)
C1_SkipWhenOutputsExist ==
    [][ \A s \in StageSet :
          (pc = s /\ proc = {} /\ ~overwrite /\ OutFiles(s) \subseteq fs)
          => (invoked' = invoked /\ proc' = {} /\ outcome'[s] = "skipped") ]_vars

(* A stage was skipped right after an earlier stage really ran. *)
C1_Witness ==
    /\ ~overwrite
    /\ outcome["RRNA_INDEX"] = "executed"
    /\ outcome["GENOME_INDEX"] = "skipped"
    /\ Len(invoked) = 1

(* C2 as stated: at every stage reached, overwrite on means the command is *)
(* invoked.  A dry run with overwrite on refutes it.                       *)
C2_Original ==
    [][ \A s \in StageSet :
          (pc = s /\ proc = {} /\ overwrite)
          => invoked' = Append(invoked, Cmd(s)) ]_vars

(* C2 amended: at every stage reached, with overwrite on and do-not-call   *)
(* off, the stage's command is invoked whether or not its outputs exist.   *)
C2_OverwriteInvokes ==
    [][ \A s \in StageSet :
          (pc = s /\ proc = {} /\ overwrite /\ ~do_not_call)
          => (invoked' = Append(invoked, Cmd(s)) /\ proc' = {Cmd(s)}) ]_vars

(* The last stage ran under overwrite although its output was there. *)
C2_Witness ==
    /\ overwrite
    /\ ~do_not_call
    /\ OutFiles("EXON_SPLIT") \subseteq fs0
    /\ Cmd("EXON_SPLIT") \in proc
    /\ Len(invoked) = Len(Stages)

(* C3: a non-zero exit status ends the run with ExecutionError, whatever   *)
(* out files exist afterwards; MissingOutputError only follows status 0.   *)
C3_ExitStatusFirst ==
    /\ status > 0 => (error = "ExecutionError" /\ pc = "failed" /\ exit_code = 1)
    /\ error = "MissingOutputError" => status = 0

(* A command failed and left a declared output missing. *)
C3_Witness ==
    /\ status > 0
    /\ error = "ExecutionError"
    /\ \E s \in StageSet : outcome[s] = "failed" /\ ~(OutFiles(s) \subseteq fs)

(* C4: when an executed command exits with status 0 and a declared output  *)
(* of its stage is missing, the run ends with MissingOutputError naming    *)
(* the missing files, and after that error no stage is entered.            *)
C4_MissingOutputIsFatal ==
    [][ /\ \A s \in StageSet :
             (/\ pc = s
              /\ Cmd(s) \in proc
              /\ proc' = {}
              /\ status' = 0
              /\ ~(OutFiles(s) \subseteq fs'))
             => (/\ error' = "MissingOutputError"
                 /\ reported' = OutFiles(s) \ fs'
                 /\ pc' = "failed"
                 /\ exit_code' = 1
                 /\ entered' = entered)
        /\ error = "MissingOutputError"
             => (pc' = "failed" /\ entered' = entered /\ invoked' = invoked) ]_vars

(* The run stopped on a missing output with stages still ahead. *)
C4_Witness ==
    /\ error = "MissingOutputError"
    /\ status = 0
    /\ pc = "failed"
    /\ Len(entered) < Len(Stages)
    /\ reported # {}

(* C5: with do-not-call set no command is ever invoked, no run ends on a   *)
(* subprocess or missing-output error, and once the first stage is reached *)
(* the run goes through the stages in order, never stuck, up to DONE.      *)
C5_DryRun ==
    do_not_call =>
        /\ invoked = << >>
        /\ proc = {}
        /\ status = -1
        /\ error \notin { "ExecutionError", "MissingOutputError" }
        /\ EnteredInOrder
        /\ \A i \in 1..Len(entered) : outcome[entered[i]] \in { "skipped", "planned" }
        /\ entered # << >> => pc \in StageSet \cup { "DONE" }
        /\ pc \in StageSet => (pc = Stages[Len(entered) + 1] /\ ENABLED Next)
        /\ pc = "DONE" => (entered = Stages /\ exit_code = 0 /\ error = "none")

(* A dry run reached DONE although a planned stage's output is missing. *)
C5_Witness ==
    /\ do_not_call
    /\ pc = "DONE"
    /\ exit_code = 0
    /\ \E s \in StageSet : outcome[s] = "planned" /\ ~(OutFiles(s) \subseteq fs)

(* C6: no stage is entered, no command invoked and no job submitted       *)
(* before both startup checks have passed; a run whose program or key      *)
(* check fails ends there with nothing invoked and nothing submitted.      *)
C6_ChecksFirst ==
    /\ (pc \in { "check_programs", "check_keys" } \/ error \in StartupErrors)
         => (/\ invoked = << >>
             /\ proc = {}
             /\ entered = << >>
             /\ submitted = 0
             /\ remote = "none")
    /\ (entered # << >> \/ invoked # << >> \/ submitted > 0)
         => (StartupOk /\ pc \notin { "check_programs", "check_keys" })
    /\ ~StartupOk => pc \in { "check_programs", "check_keys", "failed" }
    /\ error = "MissingExecutableError" => ~(programs \subseteq path)
    /\ error = "MissingConfigKeyError" => ~(required_keys \subseteq config)

(* The key check failed in a run that asked for the batch queue. *)
C6_Witness ==
    /\ error = "MissingConfigKeyError"
    /\ use_slurm
    /\ pc = "failed"
    /\ submitted = 0
    /\ invoked = << >>

(* C7: with use-slurm set, once the startup checks have passed exactly one *)
(* job is submitted; no stage is entered and no command invoked locally;   *)
(* the process ends with 0 when the submission is accepted and with 1 when *)
(* it fails; it has already ended while the job is still queued.           *)
C7_RemoteDispatch ==
    use_slurm =>
        /\ invoked = << >>
        /\ proc = {}
        /\ entered = << >>
        /\ pc \notin StageSet \cup { "DONE" }
        /\ submitted <= 1
        /\ (pc \in { "sbatch", "dispatched" } \/ error = "DispatchError") <=> submitted = 1
        /\ (StartupOk /\ pc \notin { "check_programs", "check_keys", "slurm_gate" })
             => submitted = 1
        /\ pc = "dispatched" => (exit_code = 0 /\ error = "none" /\ remote # "none")
        /\ error = "DispatchError" => (exit_code = 1 /\ pc = "failed" /\ remote = "none")
        /\ remote = "queued" => (pc = "dispatched" /\ exit_code = 0)
        /\ exit_code = 0 => pc = "dispatched"

(* The process has ended with 0 and the submitted job is still queued. *)
C7_Witness ==
    /\ use_slurm
    /\ pc = "dispatched"
    /\ exit_code = 0
    /\ submitted = 1
    /\ remote = "queued"

(* C8: the stages are entered in the order of Stages, each at most once    *)
(* and none left out before DONE; a stage is entered only when the call of *)
(* the stage before it has returned; at most one subprocess is in flight,  *)
(* and it is the command of the current stage.                             *)
C8_FixedOrder ==
    /\ Len(entered) <= Len(Stages)
    /\ EnteredInOrder
    /\ \A i \in 1..(Len(entered) - 1) : outcome[entered[i]] \in Returned
    /\ Cardinality(proc) <= 1
    /\ proc # {} => pc \in StageSet
    /\ pc \in StageSet =>
         IF proc = {}
         THEN Len(entered) < Len(Stages) /\ pc = Stages[Len(entered) + 1]
         ELSE entered # << >> /\ pc = entered[Len(entered)] /\ proc = { Cmd(pc) }
    /\ pc = "DONE" => (entered = Stages /\ \A s \in StageSet : outcome[s] \in Returned)
    /\ entered # << >> => pc \in StageSet \cup { "DONE", "failed" }

(* All six commands ran and the run reached DONE. *)
C8_Witness ==
    /\ pc = "DONE"
    /\ entered = Stages
    /\ invoked = [i \in 1..Len(Stages) |-> Cmd(Stages[i])]

(* The scenario of C9: flags the scenario does not name are off. *)
C9_Scenario ==
    StartupOk /\ ~use_slurm /\ ~overwrite /\ AllOutFiles \subseteq fs0

(* C9: a local run with all keys, all programs, every declared output      *)
(* there from the start and overwrite off skips every stage: it invokes    *)
(* nothing, raises nothing, is never stuck, and ends at DONE with 0.       *)
C9_AllSkipped ==
    C9_Scenario =>
        /\ invoked = << >>
        /\ proc = {}
        /\ error = "none"
        /\ pc # "failed"
        /\ fs = fs0
        /\ \A i \in 1..Len(entered) : outcome[entered[i]] = "skipped"
        /\ pc # "DONE" => (exit_code = -1 /\ ENABLED Next)
        /\ pc = "DONE" => (exit_code = 0 /\ entered = Stages)

(* Such a run, not a dry run, ended at DONE with exit code 0. *)
C9_Witness ==
    /\ C9_Scenario
    /\ ~do_not_call
    /\ pc = "DONE"
    /\ exit_code = 0
    /\ invoked = << >>

(* The scenario of C10: as for C9, with an rRNA index file missing. *)
C10_Scenario ==
    /\ StartupOk
    /\ ~use_slurm
    /\ ~do_not_call
    /\ ~overwrite
    /\ ~(OutFiles("RRNA_INDEX") \subseteq fs0)
    /\ (AllOutFiles \ OutFiles("RRNA_INDEX")) \subseteq fs0

(* C10: a local run, not a dry run, with overwrite off, some rRNA index    *)
(* file missing at the start and every other declared output there invokes *)
(* the rRNA index command and nothing else: exactly one invocation by the  *)
(* time the run ends, and every later stage entered is skipped.            *)
C10_OnlyRrnaRuns ==
    C10_Scenario =>
        /\ invoked \in { << >>, << Cmd("RRNA_INDEX") >> }
        /\ entered # << >> => invoked = << Cmd("RRNA_INDEX") >>
        /\ \A i \in 2..Len(entered) : outcome[entered[i]] = "skipped"
        /\ \A s \in StageSet \ { "RRNA_INDEX" } : outcome[s] \in { "none", "skipped" }
        /\ exit_code # -1 => Len(invoked) = 1
        /\ pc = "DONE" =>
             /\ exit_code = 0
             /\ outcome["RRNA_INDEX"] = "executed"
             /\ \A s \in StageSet \ { "RRNA_INDEX" } : outcome[s] = "skipped"

(* Such a run ended at DONE after the one rRNA index invocation. *)
C10_Witness ==
    /\ C10_Scenario
    /\ pc = "DONE"
    /\ invoked = << Cmd("RRNA_INDEX") >>
    /\ \A s \in StageSet \ { "RRNA_INDEX" } : outcome[s] = "skipped"

(* The five errors of a run. *)
Errors ==
    { "MissingExecutableError", "MissingConfigKeyError", "ExecutionError",
      "MissingOutputError", "DispatchError" }

(* C11: every error ends the run: the process has exit code 1, nothing is  *)
(* in flight, and from then on no stage is entered, no command invoked and *)
(* no job submitted; no command is invoked twice in a run; exit code 0 is  *)
(* only reached without an error.                                          *)
C11_ErrorsAreTerminal ==
    /\ [](/\ error \in Errors \cup { "none" }
          /\ error # "none" => (pc = "failed" /\ exit_code = 1 /\ proc = {})
          /\ pc = "failed" => error # "none"
          /\ exit_code = 0 => error = "none"
          /\ \A i, j \in 1..Len(invoked) : invoked[i] = invoked[j] => i = j)
    /\ [][ error # "none" =>
             /\ error' = error
             /\ exit_code' = exit_code
             /\ invoked' = invoked
             /\ entered' = entered
             /\ submitted' = submitted ]_vars

(* A command failed after earlier commands ran, with stages still ahead. *)
C11_Witness ==
    /\ error = "ExecutionError"
    /\ exit_code = 1
    /\ Len(invoked) >= 2
    /\ Len(entered) < Len(Stages)

(* C12 as stated: when a stage fails, every file that existed as the stage  *)
(* was entered still exists.  A command that removes one of its own out    *)
(* files and then fails refutes it.                                        *)
C12_Original ==
    [][ (error = "none" /\ error' \in { "ExecutionError", "MissingOutputError" })
          => fs \subseteq fs' ]_vars

(* C12 amended: the driver never removes a file.  The files change only in *)
(* the step in which a running command exits, and then only among that     *)
(* command's own out files; so when a stage fails every file that existed  *)
(* as the stage was entered, except out files of the failed stage that its *)
(* command removed, still exists, the out files of the stages executed     *)
(* before it in this run exist, and nothing changes after the error.       *)
C12_NoRollback ==
    /\ [][ /\ (\A s \in StageSet : Cmd(s) \notin proc) => fs' = fs
           /\ (error = "none" /\ error' # "none") => (fs \ OutFiles(pc)) \subseteq fs'
           /\ error # "none" => fs' = fs ]_vars
    /\ [](error # "none" =>
            \A s \in StageSet : outcome[s] = "executed" => OutFiles(s) \subseteq fs)

(* A stage failed after the rRNA index had been built in this run, and the *)
(* index built is still there.                                             *)
C12_Witness ==
    /\ error \in { "ExecutionError", "MissingOutputError" }
    /\ outcome["RRNA_INDEX"] = "executed"
    /\ OutFiles("RRNA_INDEX") \cap fs0 = {}
    /\ OutFiles("RRNA_INDEX") \subseteq fs
    /\ Len(entered) >= 3

(* C13: in a run that follows another one with the same command line and  *)
(* overwrite off, no stage that the earlier run skipped or executed has    *)
(* its command invoked again; after an earlier run in which all six calls  *)
(* returned, nothing at all is invoked.                                    *)
C13_RestartSafe ==
    (run > 1 /\ ~overwrite) =>
        /\ \A s \in StageSet :
             prev[s] \in { "skipped", "executed" } =>
                 /\ outcome[s] \in { "none", "skipped" }
                 /\ \A i \in 1..Len(invoked) : invoked[i] # Cmd(s)
        /\ (\A s \in StageSet : prev[s] \in Returned) => (invoked = << >> /\ proc = {})

(* The first run built the rRNA index and failed at the STAR index; the    *)
(* second run skipped the rRNA index, built the STAR index and went on to  *)
(* DONE.                                                                   *)
C13_Witness ==
    /\ run = 2
    /\ ~overwrite
    /\ prev["RRNA_INDEX"] = "executed"
    /\ prev["GENOME_INDEX"] = "failed"
    /\ outcome["RRNA_INDEX"] = "skipped"
    /\ outcome["GENOME_INDEX"] = "executed"
    /\ pc = "DONE"

(* The seven keys the config must hold. *)
SevenKeys ==
    { "genome_base_path", "genome_name", "gtf", "fasta",
      "ribosomal_fasta", "ribosomal_index", "star_index" }

(* C14: the key check fails exactly when one of the seven keys is absent,  *)
(* and the error then carries every absent key, not only one of them.      *)
C14_AllAbsentKeysReported ==
    /\ error = "MissingConfigKeyError"
         => (reported = SevenKeys \ config /\ reported # {} /\ pc = "failed")
    /\ (pc \notin { "check_programs", "check_keys" } /\ error \notin StartupErrors)
         => SevenKeys \subseteq config
    /\ (pc \notin { "check_programs", "check_keys" } /\ error # "MissingExecutableError"
          /\ ~(SevenKeys \subseteq config))
         => error = "MissingConfigKeyError"

(* Two keys were absent and both are reported. *)
C14_Witness ==
    /\ error = "MissingConfigKeyError"
    /\ config = SevenKeys \ { "gtf", "star_index" }
    /\ reported = { "gtf", "star_index" }

(* The roster of C15: six fixed names and the STAR name of the command line. *)
Roster ==
    { "extract-orfs", "bowtie2-build-s", "gffread", "intersectBed",
      "split-bed12-blocks", "gtf-to-bed12", star_executable }

(* C15: the program check fails exactly when a name of the roster does not *)
(* resolve, and the error then names only names that do not resolve, at    *)
(* least one.                                                              *)
C15_UnresolvedProgramReported ==
    /\ error = "MissingExecutableError"
         => (reported # {} /\ reported \subseteq Roster \ path /\ pc = "failed")
    /\ (pc # "check_programs" /\ error # "MissingExecutableError") => Roster \subseteq path
    /\ (pc # "check_programs" /\ ~(Roster \subseteq path))
         => error = "MissingExecutableError"

(* The STAR name given on the command line is the one that does not        *)
(* resolve, while the default name does.                                   *)
C15_Witness ==
    /\ star_executable = "STARlong"
    /\ default_star_executable \in path
    /\ error = "MissingExecutableError"
    /\ reported = { "STARlong" }

(* C16: as a stage is entered, whatever declared in files exist, it is     *)
(* skipped exactly when overwrite is off and every declared out file       *)
(* exists, and otherwise planned or run; entering a stage raises no error. *)
C16_DecisionIgnoresInputs ==
    [][ \A s \in StageSet :
          (pc = s /\ proc = {}) =>
              /\ outcome'[s] = "skipped" <=> ~(overwrite \/ ~(OutFiles(s) \subseteq fs))
              /\ outcome'[s] \in { "planned", "running" }
                   <=> (overwrite \/ ~(OutFiles(s) \subseteq fs))
              /\ outcome'[s] = "running" => Cmd(s) \in proc'
              /\ error' = "none" ]_vars

(* The rRNA index command ran and the STAR index stage was skipped, each   *)
(* with its declared in file missing.                                      *)
C16_Witness ==
    /\ outcome["RRNA_INDEX"] = "executed"
    /\ InFiles("RRNA_INDEX") \cap fs = {}
    /\ outcome["GENOME_INDEX"] = "skipped"
    /\ InFiles("GENOME_INDEX") \cap fs = {}
    /\ error = "none"

(* C17: the set of existing files changes only in a step in which the     *)
(* command of the current stage, invoked and still running, exits; the     *)
(* startup checks, the batch-queue submission and a stage that is skipped  *)
(* or only planned leave it as it was.                                     *)
C17_OnlyCommandsWrite ==
    [][ /\ fs' # fs =>
             \E s \in StageSet :
                 /\ pc = s
                 /\ outcome[s] = "running"
                 /\ Cmd(s) \in proc
                 /\ Cmd(s) \notin proc'
        /\ pc \in { "check_programs", "check_keys", "slurm_gate", "sbatch", "dispatched" }
             => fs' = fs
        /\ \A s \in StageSet : outcome'[s] \in { "skipped", "planned" } /\ outcome[s] = "none"
             => fs' = fs ]_vars

(* A dry run went through skipped and planned stages to DONE and the files *)
(* are those it started with.                                              *)
C17_Witness ==
    /\ pc = "DONE"
    /\ \E s \in StageSet : outcome[s] = "skipped"
    /\ \E s \in StageSet : outcome[s] = "planned"
    /\ fs = fs0
    /\ fs # {}

(* C18: the extract-bed-sequences command built in the transcript FASTA    *)
(* section is never invoked and is not among the checked programs; the     *)
(* only stage declaring the transcript FASTA as output is TRANSCRIPT_FASTA,*)
(* the command it invokes is gffread, at most once in a run, and a         *)
(* transcript FASTA that appears during the run was written by it.         *)
C18_OnlyGffreadInvoked ==
    /\ Len(TranscriptFastaBuilt) = 2
    /\ TranscriptFastaBuilt[1] \notin proc
    /\ \A i \in 1..Len(invoked) : invoked[i] # TranscriptFastaBuilt[1]
    /\ TranscriptFastaBuilt[1] \notin programs
    /\ \A s \in StageSet : transcript_fasta \in OutFiles(s) => s = "TRANSCRIPT_FASTA"
    /\ Cardinality({ i \in 1..Len(invoked) : invoked[i] = TranscriptFastaBuilt[2] }) <= 1
    /\ outcome["TRANSCRIPT_FASTA"] \in { "running", "executed", "failed" }
         <=> \E i \in 1..Len(invoked) : invoked[i] = "gffread"
    /\ transcript_fasta \in fs \ fs0 => \E i \in 1..Len(invoked) : invoked[i] = "gffread"
    /\ Len(invoked) <= Len(entered)

(* The stage ran gffread and the transcript FASTA, absent at the start, is *)
(* now there; the run went on to the end.                                  *)
C18_Witness ==
    /\ pc = "DONE"
    /\ outcome["TRANSCRIPT_FASTA"] = "executed"
    /\ transcript_fasta \in fs \ fs0
    /\ \E i \in 1..Len(invoked) : invoked[i] = "gffread"

Terminal == pc \in { "DONE", "dispatched", "failed" }

(* The position of pc in the text of main(). *)
PcRank(p) ==
    CASE p = "check_programs"   -> 0
      [] p = "check_keys"       -> 1
      [] p = "slurm_gate"       -> 2
      [] p = "sbatch"           -> 3
      [] p = "RRNA_INDEX"       -> 4
      [] p = "GENOME_INDEX"     -> 5
      [] p = "BED12_CONVERT"    -> 6
      [] p = "TRANSCRIPT_FASTA" -> 7
      [] p = "ORF_EXTRACT"      -> 8
      [] p = "EXON_SPLIT"       -> 9
      [] OTHER                  -> 10

(* C19: when every invoked subprocess exits and the submission returns,    *)
(* the run ends in DONE, dispatched or a fatal error and stays there; the  *)
(* driver only moves forward through its text, enters a stage at most      *)
(* once, and while it has not ended it is either able to step or waiting   *)
(* for a subprocess or for the submission command.                         *)
C19_Terminates ==
    /\ <>Terminal
    /\ [](/\ pc = "DONE" => (exit_code = 0 /\ error = "none" /\ proc = {})
          /\ pc = "dispatched" => (exit_code = 0 /\ error = "none" /\ submitted = 1)
          /\ pc = "failed" => (exit_code = 1 /\ error # "none")
          /\ ~Terminal => exit_code = -1
          /\ ~Terminal => (ENABLED <<Main>>_vars \/ proc # {} \/ pc = "sbatch")
          /\ \A i, j \in 1..Len(entered) : entered[i] = entered[j] => i = j)
    /\ [][ /\ pc' # pc => PcRank(pc') > PcRank(pc)
           /\ Terminal => (pc' = pc /\ exit_code' = exit_code /\ proc' = proc) ]_vars

(* A run that waited for six subprocesses, one after the other, and ended. *)
C19_Witness ==
    /\ pc = "DONE"
    /\ Len(invoked) = Len(Stages)
    /\ proc = {}
    /\ exit_code = 0

(* C20: in a local run that is not a dry run, the declared outputs of a    *)
(* stage that was skipped or whose command returned without error exist    *)
(* from then on, so at DONE with exit code 0 the declared outputs of all   *)
(* six stages exist, whatever files were there at the start and whatever   *)
(* the value of overwrite.                                                 *)
C20_OutputsExistAtDone ==
    (~do_not_call /\ ~use_slurm) =>
        /\ \A s \in StageSet :
               outcome[s] \in { "skipped", "executed" } => OutFiles(s) \subseteq fs
        /\ (pc = "DONE" /\ exit_code = 0) =>
               /\ \A s \in StageSet : outcome[s] \in { "skipped", "executed" }
               /\ AllOutFiles \subseteq fs
               /\ get_bowtie2_index_files("ribosomal_index") \subseteq fs
               /\ get_star_index_files("star_index") \subseteq fs
               /\ { transcript_bed, transcript_fasta, orfs_genomic, exons_file } \subseteq fs

(* A local run without overwrite that started from some but not all of    *)
(* the outputs, skipped some stages, ran others, and ended with all of     *)
(* them present.                                                           *)
C20_Witness ==
    /\ ~do_not_call
    /\ ~use_slurm
    /\ ~overwrite
    /\ pc = "DONE"
    /\ exit_code = 0
    /\ exons_file \notin fs0
    /\ orfs_genomic \in fs0
    /\ outcome["ORF_EXTRACT"] = "skipped"
    /\ outcome["EXON_SPLIT"] = "executed"
    /\ AllOutFiles \subseteq fs

====
